---- MODULE Spec2Model ----
(***************************************************************************)
(* Model of the web-page summariser: the provider/strategy layer           *)
(* (llm_core), the orchestrator summarize_and_display and the two entry    *)
(* points (the click command `main` and the older script loop).            *)
(*                                                                         *)
(* Python values that may be None are tagged records: NoneVal or Str(s).   *)
(* Values that are always text (name, model, url, prompts) are strings.    *)
(***************************************************************************)
EXTENDS Integers, Sequences, FiniteSets, TLC

VARIABLES
    entry,            \* "cli" (applications main), "script" (older __main__ loop), "strategy" (direct strategy call)
    env,              \* os.environ as seen by os.getenv at provider construction
    providers,        \* the module-level list PROVIDERS
    url,              \* the URL argument of main / target_url of the script
    flag,             \* the --provider option value (lower-cased)
    selected,         \* selected_providers
    i,                \* position of the for loop in selected (0 before the first iteration)
    pc,               \* control point of the program
    client,           \* local `client` of summarize_and_display
    website_content,  \* local `website_content`
    args,             \* the arguments of the call under way (strategy.summarize, a constructor)
    summary,          \* local `summary` (the value provider.summarize returned)
    exc,              \* the exception propagating out of the program, or NoneVal
    genai_api_key,    \* the process-wide key set by genai.configure
    calls,            \* log of the calls made to collaborators, in order
    printed           \* what console.print / click.echo received, in order

vars == <<entry, env, providers, url, flag, selected, i, pc, client,
          website_content, args, summary, exc, genai_api_key, calls, printed>>

----------------------------------------------------------------------------
(* Python values *)

NoneVal == [t |-> "None"]

Str(s) == [t |-> "str", v |-> s]

IsStr(v) == v.t = "str"

\* bool(v) for v an Optional[str]: None and "" are falsy
Truthy(v) == IsStr(v) /\ Len(v.v) > 0

\* `a or d` for an Optional[str] a and a str default d
OrElse(a, d) == IF Truthy(a) THEN a.v ELSE d

\* str.startswith, str.endswith
StartsWith(s, p) == Len(s) >= Len(p) /\ SubSeq(s, 1, Len(p)) = p

EndsWith(s, p) == Len(s) >= Len(p) /\ SubSeq(s, Len(s) - Len(p) + 1, Len(s)) = p

\* `sub in s`
Contains(s, sub) ==
    \E k \in 0..(Len(s) - Len(sub)) : SubSeq(s, k + 1, k + Len(sub)) = sub

----------------------------------------------------------------------------
(* Bounds of the model *)

\* longest text drawn for the arguments of a direct strategy call
MaxLen == 2

\* characters those texts are built from
Alphabet == {"a", "\n"}

RECURSIVE Texts(_)
Texts(n) ==
    IF n = 0 THEN {""}
    ELSE Texts(n - 1) \cup {s \o c : s \in Texts(n - 1), c \in Alphabet}

----------------------------------------------------------------------------
(* core/summarizer.py: module constants *)

system_prompt ==
    "\nYou are a helpful assistant that analyzes website content and provides clear, concise summaries.\nFocus on the main content and key information, ignoring navigation elements, headers, and footers.\nProvide your response in markdown format without wrapping it in code blocks.\n"

user_prompt_prefix ==
    "\nHere are the contents of a website.\nProvide a short summary of this website.\nIf it includes news or announcements, then summarize these too.\n"

\* the prefix summarize_and_display tests the fetched text for
FetchErrorMarker == "Error fetching website content"

----------------------------------------------------------------------------
(* Providers: records with the five attributes BaseProvider.__init__ sets *)

BaseProvider(name, model, strategy, api_key, base_url) ==
    [name |-> name, model |-> model, strategy |-> strategy,
     api_key |-> api_key, base_url |-> base_url]

\* strategies are stateless; a strategy object is modelled by its class name
OpenAIAPIStrategy == "OpenAIAPIStrategy"

GeminiNativeStrategy == "GeminiNativeStrategy"

\* (mutant) the local provider built without a credential
OllamaProviderNoKey(model_name) ==
    BaseProvider("Ollama", OrElse(model_name, "llama3.2:latest"),
                 OpenAIAPIStrategy, NoneVal, Str("http://localhost:11434/v1"))

\* (mutant) the model_name argument ignored
OllamaProviderFixedModel(model_name) ==
    BaseProvider("Ollama", "llama3.2:latest",
                 OpenAIAPIStrategy, Str("ollama"), Str("http://localhost:11434/v1"))

OllamaProvider(model_name) ==
    BaseProvider("Ollama", OrElse(model_name, "llama3.2:latest"),
                 OpenAIAPIStrategy, Str("ollama"), Str("http://localhost:11434/v1"))

\* (mutant) os.getenv given an empty-string default
OpenAIProviderEmptyDefault(e, model_name) ==
    BaseProvider("OpenAI", OrElse(model_name, "gpt-4o-mini"), OpenAIAPIStrategy,
                 IF e.OPENAI_API_KEY = NoneVal THEN Str("") ELSE e.OPENAI_API_KEY,
                 NoneVal)

OpenAIProvider(e, model_name) ==
    BaseProvider("OpenAI", OrElse(model_name, "gpt-4o-mini"),
                 OpenAIAPIStrategy, e.OPENAI_API_KEY, NoneVal)

\* (mutant) the strategy classified by being the native class itself
GeminiProviderByClass(e, strategy, model_name) ==
    BaseProvider(
        IF strategy = "GeminiNativeStrategy" THEN "Google Gemini (Native)"
                                             ELSE "Google Gemini (OpenAI API)",
        IF strategy = "GeminiNativeStrategy" THEN OrElse(model_name, "gemini-2.5-pro")
                                             ELSE OrElse(model_name, "gemini-2.5-flash"),
        strategy,
        e.GEMINI_API_KEY,
        IF strategy # "GeminiNativeStrategy"
            THEN Str("https://generativelanguage.googleapis.com/v1beta")
            ELSE NoneVal)

\* (mutant) one default model for both strategies
GeminiProviderOneDefault(e, strategy, model_name) ==
    BaseProvider(
        IF Contains(strategy, "Native") THEN "Google Gemini (Native)"
                                        ELSE "Google Gemini (OpenAI API)",
        OrElse(model_name, "gemini-2.5-flash"),
        strategy,
        e.GEMINI_API_KEY,
        IF ~Contains(strategy, "Native")
            THEN Str("https://generativelanguage.googleapis.com/v1beta")
            ELSE NoneVal)

GeminiProvider(e, strategy, model_name) ==
    BaseProvider(
        IF Contains(strategy, "Native") THEN "Google Gemini (Native)"
                                        ELSE "Google Gemini (OpenAI API)",
        IF Contains(strategy, "Native") THEN OrElse(model_name, "gemini-2.5-pro")
                                        ELSE OrElse(model_name, "gemini-2.5-flash"),
        strategy,
        e.GEMINI_API_KEY,
        IF ~Contains(strategy, "Native")
            THEN Str("https://generativelanguage.googleapis.com/v1beta")
            ELSE NoneVal)

\* the module-level list, built at import time from the environment e
PROVIDERS(e) ==
    << OllamaProvider(Str("llama3.2:latest")),
       OpenAIProvider(e, Str("gpt-5-nano")),
       GeminiProvider(e, OpenAIAPIStrategy, Str("gemini-2.5-flash")),
       GeminiProvider(e, GeminiNativeStrategy, Str("gemini-2.5-flash")) >>

----------------------------------------------------------------------------
(* Strategies: request building and result extraction *)

\* (mutant) the user message built with a newline between prefix and content
OpenAIMessagesSpaced(sys, prefix, content) ==
    << [role |-> "system", content |-> sys],
       [role |-> "user", content |-> prefix \o "\n" \o content] >>

\* the messages list of OpenAIAPIStrategy.summarize
OpenAIMessages(sys, prefix, content) ==
    << [role |-> "system", content |-> sys],
       [role |-> "user", content |-> prefix \o content] >>

\* (mutant) the flattened prompt joined with single newlines
NativePromptSingleNewline(sys, prefix, content) ==
    sys \o "\n" \o prefix \o "\n" \o content

\* full_prompt of GeminiNativeStrategy.summarize
NativePrompt(sys, prefix, content) ==
    sys \o "\n\n" \o prefix \o "\n\n" \o content

\* (mutant) an error string that does not name the provider
OpenAIErrorNoName(name, e) == "An error occurred: " \o e

\* the except branch of OpenAIAPIStrategy.summarize
OpenAIError(name, e) == "An error occurred with " \o name \o ": " \o e

\* (mutant) the native error string without its path marker
NativeErrorUnmarked(name, e) == "An error occurred with " \o name \o ": " \o e

\* the except branch of GeminiNativeStrategy.summarize
NativeError(name, e) == "An error occurred with " \o name \o " (Native): " \o e

\* What client.chat.completions.create can do: raise, or return a response
\* whose choices list may be empty and whose first message's content is
\* Optional[str].
RaiseOutcome(e) == [kind |-> "raise", msg |-> e]

ChatCompletion(choices) == [kind |-> "response", choices |-> choices]

Choice(content) == [message |-> [content |-> content]]

\* (mutant) the credential written into the error string
OpenAIResultLeaksKey(p, r) ==
    IF r.kind = "raise" THEN Str(OpenAIError(p.name \o " [" \o p.api_key.v \o "]", r.msg))
    ELSE IF Len(r.choices) = 0
        THEN Str(OpenAIError(p.name \o " [" \o p.api_key.v \o "]", "list index out of range"))
        ELSE r.choices[1].message.content

\* the value OpenAIAPIStrategy.summarize returns for backend outcome r
OpenAIResult(p, r) ==
    IF r.kind = "raise" THEN Str(OpenAIError(p.name, r.msg))
    ELSE IF Len(r.choices) = 0
        THEN Str(OpenAIError(p.name, "list index out of range"))
        ELSE r.choices[1].message.content

\* What client.generate_content can do: raise, return a response whose .text
\* property raises (no valid part), or return a response with text.
GenerateContentResponse(text) == [kind |-> "response", text |-> text]

NoTextResponse(e) == [kind |-> "no_text", msg |-> e]

\* the value GeminiNativeStrategy.summarize returns for backend outcome r
NativeResult(p, r) ==
    IF r.kind \in {"raise", "no_text"} THEN Str(NativeError(p.name, r.msg))
    ELSE Str(r.text)

----------------------------------------------------------------------------
(* The environment of the program: what its collaborators can answer *)

\* os.getenv results: unset, set to the empty string, set to a key
EnvValues == {NoneVal, Str(""), Str("sk-test")}

Envs == [OPENAI_API_KEY : EnvValues, GEMINI_API_KEY : EnvValues]

DefaultURL == "https://www.anthropic.com"

URLs == {DefaultURL, "http://example.com", "example.com", "www.example.com",
         "ftp://example.com", "HTTP://example.com", ""}

Flags == {"ollama", "openai", "gemini-openai", "gemini-native", "all"}

\* (mutant) the except branch returning the bare description
ScraperErrorBare(e) == "Error: " \o e

\* the except branch of fetch_website_contents
ScraperError(e) == "Error fetching website content with Playwright: " \o e

\* the cleaned text of the pages met: an ordinary page, a page without text,
\* a page whose own text starts with the marker
PageTexts ==
    { "About Python\nPython is a language.",
      "",
      "Error fetching website content is the headline of this page" }

\* what happens inside the try block of one fetch: the page is loaded, parsed
\* and cleaned to a text, or a step raises while browsing (launch, goto,
\* content) or while parsing (BeautifulSoup, get_text)
ScrapeOutcomes ==
    { [kind |-> "text", text |-> t] : t \in PageTexts } \cup
    { [kind |-> "raise", stage |-> "browse", msg |-> "Timeout 30000ms exceeded."],
      [kind |-> "raise", stage |-> "parse", msg |-> "maximum recursion depth exceeded"] }

\* the value fetch_website_contents returns for what happened inside its try
fetch_website_contents(o) ==
    IF o.kind = "raise" THEN ScraperError(o.msg) ELSE o.text

\* every text fetch_website_contents can hand to summarize_and_display
FetchResults == { fetch_website_contents(o) : o \in ScrapeOutcomes }

\* texts of the exceptions a backend call raises
FailureTexts == {"Connection error.", "Error code: 401 - invalid api key"}

OpenAIOutcomes ==
    { RaiseOutcome(e) : e \in FailureTexts }
    \cup { ChatCompletion(<< >>),
           ChatCompletion(<< Choice(NoneVal) >>),
           ChatCompletion(<< Choice(Str("This is a test summary.")) >>) }

NativeOutcomes ==
    { RaiseOutcome(e) : e \in FailureTexts }
    \cup { NoTextResponse("Invalid operation: response.text requires a valid Part") ,
           GenerateContentResponse("This is a test summary from Gemini.") }

----------------------------------------------------------------------------
(* Console output *)

PanelOut(run, panel) == [run |-> run, kind |-> "panel", panel |-> panel]

BlankOut(run) == [run |-> run, kind |-> "blank"]

EchoOut(text) == [run |-> 0, kind |-> "echo", text |-> text]

SkipTitle == "[bold red]Error[/bold red]"

ScrapingTitle == "[bold red]Scraping Error[/bold red]"

SkipPanel(p) ==
    [body |-> "API key for [bold yellow]" \o p.name \o "[/bold yellow] not found. Skipping.",
     title |-> SkipTitle, border_style |-> "red"]

ScrapingPanel(content) ==
    [body |-> content, title |-> ScrapingTitle, border_style |-> "red"]

\* (mutant) the summary printed under the error title
SummaryPanelAsError(p, text) ==
    [body |-> text, title |-> SkipTitle, border_style |-> "red"]

\* Panel(Markdown(summary), title=panel_title, border_style="green")
SummaryPanel(p, text) ==
    [body |-> text,
     title |-> "[bold cyan]" \o p.name \o "[/bold cyan] ([italic]" \o p.model \o "[/italic])",
     border_style |-> "green"]

----------------------------------------------------------------------------
(* State after import: providers constructed, nothing run yet *)

Locals ==
    /\ client = NoneVal
    /\ website_content = NoneVal
    /\ args = NoneVal
    /\ summary = NoneVal

Init ==
    /\ entry \in {"cli", "script"}
    /\ env \in Envs
    /\ providers = PROVIDERS(env)
    /\ url \in (IF entry = "cli" THEN URLs ELSE {DefaultURL})
    /\ flag \in (IF entry = "cli" THEN Flags ELSE {"all"})
    /\ selected = << >>
    /\ i = 0
    /\ pc = "main"
    /\ Locals
    /\ exc = NoneVal
    /\ genai_api_key = NoneVal
    /\ calls = << >>
    /\ printed = << >>

\* the provider the running summarize_and_display was called with
cur == selected[i]

----------------------------------------------------------------------------
(* Entry points *)

\* (mutant) any scheme accepted
ValidURLAnyScheme(u) == Contains(u, "://")

\* the negation of `not url.startswith(('http://', 'https://'))`
ValidURL(u) == StartsWith(u, "http://") \/ StartsWith(u, "https://")

\* provider_map[provider.lower()]
provider_map(f) ==
    CASE f = "ollama" -> << providers[1] >>
      [] f = "openai" -> << providers[2] >>
      [] f = "gemini-openai" -> << providers[3] >>
      [] f = "gemini-native" -> << providers[4] >>
      [] f = "all" -> providers

\* text of `Using N provider(s)` for the selections the map can give
CountText(n) == IF n = 1 THEN "1" ELSE "4"

\* main(url, provider) up to the for loop: URL validation, provider selection
\* (the emoji that decorate the echoed lines are left out of the texts)
main ==
    /\ pc = "main"
    /\ entry = "cli"
    /\ IF ~ValidURL(url)
         THEN /\ printed' = printed \o << EchoOut("Invalid URL: " \o url),
                                         EchoOut("URL must start with http:// or https://") >>
              /\ exc' = [type |-> "click.Abort", origin |-> "main"]
              /\ pc' = "aborted"
              /\ UNCHANGED selected
         ELSE /\ selected' = provider_map(flag)
              /\ printed' = printed \o
                    << EchoOut("\nSummarizing: " \o url),
                       EchoOut("Using " \o CountText(Len(provider_map(flag))) \o " provider(s)\n") >>
              /\ pc' = "loop"
              /\ UNCHANGED exc
    /\ UNCHANGED <<entry, env, providers, url, flag, i, client, website_content,
                   args, summary, genai_api_key, calls>>

\* the older script: fixed URL, every provider, each handed to the same
\* summarize_and_display
script_main ==
    /\ pc = "main"
    /\ entry = "script"
    /\ selected' = providers
    /\ pc' = "loop"
    /\ UNCHANGED <<entry, env, providers, url, flag, i, client, website_content,
                   args, summary, exc, genai_api_key, calls, printed>>

\* one step of `for llm_provider in selected_providers`: call
\* summarize_and_display with the next provider, or leave the loop
for_loop ==
    /\ pc = "loop"
    /\ IF i < Len(selected)
         THEN /\ i' = i + 1
              /\ calls' = Append(calls, [op |-> "summarize_and_display", run |-> i + 1,
                                         provider |-> selected[i + 1], url |-> url])
              /\ pc' = "sad_check"
         ELSE /\ pc' = "done"
              /\ UNCHANGED <<i, calls>>
    /\ client' = NoneVal
    /\ website_content' = NoneVal
    /\ args' = NoneVal
    /\ summary' = NoneVal
    /\ UNCHANGED <<entry, env, providers, url, flag, selected, exc,
                   genai_api_key, printed>>

----------------------------------------------------------------------------
(* summarize_and_display(provider, url) *)

\* (mutant) the credential check left out
HasCredentialAlways(p) == TRUE

\* (mutant) the credential tested for absence only
HasCredentialNotNone(p) == p.api_key # NoneVal

\* (mutant) a credential that the first run uses up
HasCredentialOnce(p) == Truthy(p.api_key) /\ i = 1

\* the negation of `not provider.api_key`
HasCredential(p) == Truthy(p.api_key)

\* (mutant) the fetch started without building the client first
sad_check_FetchFirst ==
    /\ pc = "sad_check"
    /\ IF ~HasCredential(cur)
         THEN /\ printed' = Append(printed, PanelOut(i, SkipPanel(cur)))
              /\ pc' = "loop"
         ELSE /\ pc' = "fetch"
              /\ UNCHANGED printed
    /\ UNCHANGED <<entry, env, providers, url, flag, selected, i, client,
                   website_content, args, summary, exc, genai_api_key, calls>>

\* (mutant) the skip report printed without the early return
sad_check_NoReturn ==
    /\ pc = "sad_check"
    /\ IF ~HasCredential(cur)
         THEN printed' = Append(printed, PanelOut(i, SkipPanel(cur)))
         ELSE UNCHANGED printed
    /\ pc' = "get_client"
    /\ UNCHANGED <<entry, env, providers, url, flag, selected, i, client,
                   website_content, args, summary, exc, genai_api_key, calls>>

\* the credential check and its early return
sad_check ==
    /\ pc = "sad_check"
    /\ IF ~HasCredential(cur)
         THEN /\ printed' = Append(printed, PanelOut(i, SkipPanel(cur)))
              /\ pc' = "loop"
         ELSE /\ pc' = "get_client"
              /\ UNCHANGED printed
    /\ UNCHANGED <<entry, env, providers, url, flag, selected, i, client,
                   website_content, args, summary, exc, genai_api_key, calls>>

\* the log entry of a get_client call keeps the client it returned (NoneVal
\* when it raised)

\* the client OpenAIAPIStrategy.get_client builds: a custom base_url when the
\* provider has one, the SDK's default otherwise (told apart by base_url None)
\* (mutant) the provider's base_url never passed on
OpenAIClientDefaultOnly(p) ==
    [kind |-> "OpenAI", api_key |-> p.api_key, base_url |-> NoneVal]

OpenAIClient(p) ==
    IF Truthy(p.base_url)
        THEN [kind |-> "OpenAI", api_key |-> p.api_key, base_url |-> p.base_url]
        ELSE [kind |-> "OpenAI", api_key |-> p.api_key, base_url |-> NoneVal]

GenerativeModel(p) == [kind |-> "GenerativeModel", model_name |-> p.model]

\* (mutant) a raising constructor reported in a panel, the run returning
OpenAIAPIStrategy_get_client_Caught ==
    /\ pc = "get_client"
    /\ cur.strategy = OpenAIAPIStrategy
    /\ \E ok \in BOOLEAN :
         IF ok
           THEN /\ client' = OpenAIClient(cur)
                /\ calls' = Append(calls, [op |-> "get_client", run |-> i,
                                           client |-> OpenAIClient(cur)])
                /\ pc' = "fetch"
                /\ UNCHANGED printed
           ELSE /\ calls' = Append(calls, [op |-> "get_client", run |-> i,
                                           client |-> NoneVal])
                /\ printed' = Append(printed,
                        PanelOut(i, SummaryPanel(cur, OpenAIError(cur.name, "client error"))))
                /\ pc' = "loop"
                /\ UNCHANGED client
    /\ UNCHANGED <<entry, env, providers, url, flag, selected, i,
                   website_content, args, summary, exc, genai_api_key>>

\* provider.get_client() with an OpenAIAPIStrategy; the constructor may raise,
\* and nothing in summarize_and_display or main catches it
OpenAIAPIStrategy_get_client ==
    /\ pc = "get_client"
    /\ cur.strategy = OpenAIAPIStrategy
    /\ \E ok \in BOOLEAN :
         IF ok
           THEN /\ client' = OpenAIClient(cur)
                /\ calls' = Append(calls, [op |-> "get_client", run |-> i,
                                           client |-> OpenAIClient(cur)])
                /\ pc' = "fetch"
                /\ UNCHANGED exc
           ELSE /\ exc' = [type |-> "Exception", origin |-> "get_client"]
                /\ calls' = Append(calls, [op |-> "get_client", run |-> i,
                                           client |-> NoneVal])
                /\ pc' = "crashed"
                /\ UNCHANGED client
    /\ UNCHANGED <<entry, env, providers, url, flag, selected, i,
                   website_content, args, summary, genai_api_key, printed>>

\* what GeminiNativeStrategy.get_client can do: genai.configure may raise
\* before the key is replaced, GenerativeModel may raise after it, or both
\* return
NativeClientOutcomes ==
    { "returns", "configure raises", "GenerativeModel raises" }

\* provider.get_client() with a GeminiNativeStrategy: genai.configure sets the
\* process-wide key, then the model handle is built
GeminiNativeStrategy_get_client ==
    /\ pc = "get_client"
    /\ cur.strategy = GeminiNativeStrategy
    /\ \E o \in NativeClientOutcomes :
         IF o = "returns"
           THEN /\ genai_api_key' = cur.api_key
                /\ client' = GenerativeModel(cur)
                /\ calls' = Append(calls, [op |-> "get_client", run |-> i,
                                           client |-> GenerativeModel(cur)])
                /\ pc' = "fetch"
                /\ UNCHANGED exc
           ELSE /\ genai_api_key' = IF o = "GenerativeModel raises"
                                       THEN cur.api_key
                                       ELSE genai_api_key
                /\ exc' = [type |-> "Exception", origin |-> "get_client"]
                /\ calls' = Append(calls, [op |-> "get_client", run |-> i,
                                           client |-> NoneVal])
                /\ pc' = "crashed"
                /\ UNCHANGED client
    /\ UNCHANGED <<entry, env, providers, url, flag, selected, i,
                   website_content, args, summary, printed>>

\* website_content = fetch_website_contents(url); the log entry keeps what
\* happened inside the scraper and the text it returned
fetch ==
    /\ pc = "fetch"
    /\ \E o \in ScrapeOutcomes :
          /\ website_content' = Str(fetch_website_contents(o))
          /\ calls' = Append(calls, [op |-> "fetch_website_contents", run |-> i,
                                     url |-> url, outcome |-> o,
                                     result |-> fetch_website_contents(o)])
    /\ pc' = "check_fetch"
    /\ UNCHANGED <<entry, env, providers, url, flag, selected, i, client,
                   args, summary, exc, genai_api_key, printed>>

\* (mutant) an empty text treated as a failed fetch
IsFetchErrorOrEmpty(content) == StartsWith(content, FetchErrorMarker) \/ content = ""

\* (mutant) the marker test made against another prefix
IsFetchErrorColon(content) == StartsWith(content, "Error: ")

\* website_content.startswith("Error fetching website content")
IsFetchError(content) == StartsWith(content, FetchErrorMarker)

\* the marker test and its early return
check_fetch ==
    /\ pc = "check_fetch"
    /\ IF IsFetchError(website_content.v)
         THEN /\ printed' = Append(printed, PanelOut(i, ScrapingPanel(website_content.v)))
              /\ pc' = "loop"
         ELSE /\ pc' = "call_summarize"
              /\ UNCHANGED printed
    /\ UNCHANGED <<entry, env, providers, url, flag, selected, i, client,
                   website_content, args, summary, exc, genai_api_key, calls>>

\* (mutant) the two prompts handed to the strategy in each other's place
DelegatedArgsSwapped(a) ==
    [a EXCEPT !.system_prompt = a.user_prompt_prefix,
              !.user_prompt_prefix = a.system_prompt]

\* BaseProvider.summarize: the arguments it hands to strategy.summarize are
\* those it received, in the same positions (the provider itself goes first)
DelegatedArgs(a) == a

\* the arguments of provider.summarize(...)
SummarizeArgs(c, content) ==
    [client |-> c, website_content |-> content,
     system_prompt |-> system_prompt, user_prompt_prefix |-> user_prompt_prefix]

\* summary = provider.summarize(client, website_content, system_prompt,
\* user_prompt_prefix): BaseProvider.summarize hands the arguments to the strategy
call_summarize ==
    /\ pc = "call_summarize"
    /\ args' = DelegatedArgs(SummarizeArgs(client, website_content.v))
    /\ calls' = Append(calls, [op |-> "summarize", run |-> i,
                               args |-> SummarizeArgs(client, website_content.v)])
    /\ pc' = "strategy"
    /\ UNCHANGED <<entry, env, providers, url, flag, selected, i, client,
                   website_content, summary, exc, genai_api_key, printed>>

----------------------------------------------------------------------------
(* Strategy.summarize *)

\* where a strategy's summarize returns to
AfterStrategy == IF entry = "strategy" THEN "done" ELSE "render"

\* (mutant) a raising create call tried a second time
OpenAIAPIStrategy_summarize_Retry ==
    /\ pc = "strategy"
    /\ cur.strategy = OpenAIAPIStrategy
    /\ \E r \in OpenAIOutcomes :
          /\ calls' = Append(calls,
                [op |-> "create", run |-> i, model |-> cur.model,
                 messages |-> OpenAIMessages(args.system_prompt, args.user_prompt_prefix,
                                             args.website_content),
                 outcome |-> r, result |-> OpenAIResult(cur, r)])
          /\ summary' = OpenAIResult(cur, r)
          /\ pc' = IF r.kind = "raise" /\ Len(SelectSeq(calls, LAMBDA c : c.op = "create" /\ c.run = i)) = 0
                     THEN "strategy" ELSE AfterStrategy
    /\ UNCHANGED <<entry, env, providers, url, flag, selected, i, client,
                   website_content, args, exc, genai_api_key, printed>>

\* OpenAIAPIStrategy.summarize: one chat.completions.create call; the log entry
\* keeps the request, what the backend answered and the value returned
OpenAIAPIStrategy_summarize ==
    /\ pc = "strategy"
    /\ cur.strategy = OpenAIAPIStrategy
    /\ \E r \in OpenAIOutcomes :
          /\ calls' = Append(calls,
                [op |-> "create", run |-> i, model |-> cur.model,
                 messages |-> OpenAIMessages(args.system_prompt, args.user_prompt_prefix,
                                             args.website_content),
                 outcome |-> r, result |-> OpenAIResult(cur, r)])
          /\ summary' = OpenAIResult(cur, r)
    /\ pc' = AfterStrategy
    /\ UNCHANGED <<entry, env, providers, url, flag, selected, i, client,
                   website_content, args, exc, genai_api_key, printed>>

\* GeminiNativeStrategy.summarize: one generate_content call with the flattened
\* prompt; the log entry keeps what the backend answered and the value returned
GeminiNativeStrategy_summarize ==
    /\ pc = "strategy"
    /\ cur.strategy = GeminiNativeStrategy
    /\ \E r \in NativeOutcomes :
          /\ calls' = Append(calls,
                [op |-> "generate_content", run |-> i,
                 prompt |-> NativePrompt(args.system_prompt, args.user_prompt_prefix,
                                         args.website_content),
                 outcome |-> r, result |-> NativeResult(cur, r)])
          /\ summary' = NativeResult(cur, r)
    /\ pc' = AfterStrategy
    /\ UNCHANGED <<entry, env, providers, url, flag, selected, i, client,
                   website_content, args, exc, genai_api_key, printed>>

----------------------------------------------------------------------------
(* summarize_and_display, the terminal render step *)

\* Panel(Markdown(summary), title=panel_title, ...) then an empty line.
\* Markdown() parses its argument when constructed and raises TypeError for
\* a value that is not a str; nothing catches it.
render ==
    /\ pc = "render"
    /\ IF IsStr(summary)
         THEN /\ printed' = printed \o << PanelOut(i, SummaryPanel(cur, summary.v)),
                                          BlankOut(i) >>
              /\ pc' = "loop"
              /\ UNCHANGED exc
         ELSE /\ exc' = [type |-> "TypeError", origin |-> "render"]
              /\ pc' = "crashed"
              /\ UNCHANGED printed
    /\ UNCHANGED <<entry, env, providers, url, flag, selected, i, client,
                   website_content, args, summary, genai_api_key, calls>>

----------------------------------------------------------------------------
(* Specifications *)

Next ==
    \/ main
    \/ script_main
    \/ for_loop
    \/ sad_check
    \/ OpenAIAPIStrategy_get_client
    \/ GeminiNativeStrategy_get_client
    \/ fetch
    \/ check_fetch
    \/ call_summarize
    \/ OpenAIAPIStrategy_summarize
    \/ GeminiNativeStrategy_summarize
    \/ render

\* a run of either entry point
Spec == Init /\ [][Next]_vars

\* A direct call of strategy.summarize(provider, client, website_content,
\* system_prompt, user_prompt_prefix) with a stand-in provider and client and
\* arbitrary texts, as the strategy unit tests make it.
MockNames == {"TestProvider", "Gemini"}

MockClient == [kind |-> "Mock"]

\* credentials and endpoints of the stand-in provider
MockKeys == {Str("test-key"), Str("other-key")}

MockEndpoints == {NoneVal, Str("http://localhost:11434/v1")}

InitStrategy ==
    /\ entry = "strategy"
    /\ env = [OPENAI_API_KEY |-> NoneVal, GEMINI_API_KEY |-> NoneVal]
    /\ \E n \in MockNames, st \in {OpenAIAPIStrategy, GeminiNativeStrategy},
          k \in MockKeys, b \in MockEndpoints :
          providers = << BaseProvider(n, "test-model", st, k, b) >>
    /\ selected = providers
    /\ i = 1
    /\ url = DefaultURL
    /\ flag = "all"
    /\ pc = "strategy"
    /\ client = MockClient
    /\ website_content = NoneVal
    /\ args \in [client : {MockClient}, website_content : Texts(MaxLen),
                 system_prompt : Texts(MaxLen), user_prompt_prefix : Texts(MaxLen)]
    /\ summary = NoneVal
    /\ exc = NoneVal
    /\ genai_api_key = NoneVal
    /\ calls = << >>
    /\ printed = << >>

NextStrategy ==
    \/ OpenAIAPIStrategy_summarize
    \/ GeminiNativeStrategy_summarize

SpecStrategy == InitStrategy /\ [][NextStrategy]_vars

----------------------------------------------------------------------------
(* A provider constructor called on its own *)

\* model_name arguments: left out (None), empty, a custom name
ModelNames == {NoneVal, Str(""), Str("custom-model")}

\* the classes of the strategy objects GeminiProvider is given: the two of the
\* library, a subclass of the native strategy named without "Native", and an
\* OpenAI-compatible strategy whose name contains "Native"
StrategyClasses ==
    {OpenAIAPIStrategy, GeminiNativeStrategy, "GeminiDirectStrategy",
     "NativeCompatStrategy"}

\* the constructor calls: OllamaProvider(model_name), OpenAIProvider(model_name),
\* GeminiProvider(strategy, model_name)
ConstructorCalls ==
    [cls : {"OllamaProvider", "OpenAIProvider"}, model_name : ModelNames]
    \cup [cls : {"GeminiProvider"},
          strategy : StrategyClasses,
          model_name : ModelNames]

InitProvider ==
    /\ entry = "provider"
    /\ env \in Envs
    /\ providers = << >>
    /\ selected = << >>
    /\ i = 0
    /\ url = DefaultURL
    /\ flag = "all"
    /\ pc = "construct"
    /\ client = NoneVal
    /\ website_content = NoneVal
    /\ args \in ConstructorCalls
    /\ summary = NoneVal
    /\ exc = NoneVal
    /\ genai_api_key = NoneVal
    /\ calls = << >>
    /\ printed = << >>

\* the constructed provider is kept as the only entry of `providers`
OllamaProvider_init ==
    /\ pc = "construct"
    /\ args.cls = "OllamaProvider"
    /\ providers' = << OllamaProvider(args.model_name) >>
    /\ pc' = "done"
    /\ UNCHANGED <<entry, env, url, flag, selected, i, client, website_content,
                   args, summary, exc, genai_api_key, calls, printed>>

OpenAIProvider_init ==
    /\ pc = "construct"
    /\ args.cls = "OpenAIProvider"
    /\ providers' = << OpenAIProvider(env, args.model_name) >>
    /\ pc' = "done"
    /\ UNCHANGED <<entry, env, url, flag, selected, i, client, website_content,
                   args, summary, exc, genai_api_key, calls, printed>>

GeminiProvider_init ==
    /\ pc = "construct"
    /\ args.cls = "GeminiProvider"
    /\ providers' = << GeminiProvider(env, args.strategy, args.model_name) >>
    /\ pc' = "done"
    /\ UNCHANGED <<entry, env, url, flag, selected, i, client, website_content,
                   args, summary, exc, genai_api_key, calls, printed>>

NextProvider ==
    \/ OllamaProvider_init
    \/ OpenAIProvider_init
    \/ GeminiProvider_init

SpecProvider == InitProvider /\ [][NextProvider]_vars

----------------------------------------------------------------------------
(* One provider handed to summarize_and_display twice in sequence *)

\* the providers the three constructors can build in environment e
ProvidersIn(e) ==
    { OllamaProvider(n) : n \in ModelNames }
    \cup { OpenAIProvider(e, n) : n \in ModelNames }
    \cup { GeminiProvider(e, s, n) :
             s \in {OpenAIAPIStrategy, GeminiNativeStrategy}, n \in ModelNames }

InitRepeat ==
    /\ entry = "repeat"
    /\ env \in Envs
    /\ \E p \in ProvidersIn(env) :
          /\ providers = << p >>
          /\ selected = << p, p >>
    /\ i = 0
    /\ url = DefaultURL
    /\ flag = "all"
    /\ pc = "loop"
    /\ Locals
    /\ exc = NoneVal
    /\ genai_api_key = NoneVal
    /\ calls = << >>
    /\ printed = << >>

NextRepeat ==
    \/ for_loop
    \/ sad_check
    \/ OpenAIAPIStrategy_get_client
    \/ GeminiNativeStrategy_get_client
    \/ fetch
    \/ check_fetch
    \/ call_summarize
    \/ OpenAIAPIStrategy_summarize
    \/ GeminiNativeStrategy_summarize
    \/ render

SpecRepeat == InitRepeat /\ [][NextRepeat]_vars

----------------------------------------------------------------------------
(* The runs of two providers interleaved: the steps of summarize_and_display
   taken for two providers in any order. In this specification pc, client,
   website_content and summary hold one value per run. *)

\* the providers the runs are taken from: the entries of PROVIDERS
Pool(e) == { PROVIDERS(e)[k] : k \in 1..4 }

InitParallel ==
    /\ entry = "parallel"
    /\ env \in Envs
    /\ \E p \in Pool(env), q \in Pool(env) :
          /\ p # q
          /\ providers = << p, q >>
    /\ selected = providers
    /\ i = 2
    /\ url = DefaultURL
    /\ flag = "all"
    /\ pc = << "sad_check", "sad_check" >>
    /\ client = << NoneVal, NoneVal >>
    /\ website_content = << NoneVal, NoneVal >>
    /\ args = << NoneVal, NoneVal >>
    /\ summary = << NoneVal, NoneVal >>
    /\ exc = << NoneVal, NoneVal >>
    /\ genai_api_key = NoneVal
    /\ calls = << >>
    /\ printed = << >>

\* run r's credential check and early return
par_sad_check(r) ==
    /\ pc[r] = "sad_check"
    /\ IF ~HasCredential(selected[r])
         THEN /\ printed' = Append(printed, PanelOut(r, SkipPanel(selected[r])))
              /\ pc' = [pc EXCEPT ![r] = "returned"]
         ELSE /\ pc' = [pc EXCEPT ![r] = "get_client"]
              /\ UNCHANGED printed
    /\ UNCHANGED <<entry, env, providers, url, flag, selected, i, client,
                   website_content, args, summary, exc, genai_api_key, calls>>

\* run r's provider.get_client() with an OpenAIAPIStrategy: the client holds
\* the credential itself; an exception of the constructor ends the run
par_OpenAIAPIStrategy_get_client(r) ==
    /\ pc[r] = "get_client"
    /\ selected[r].strategy = OpenAIAPIStrategy
    /\ \E ok \in BOOLEAN :
         IF ok
           THEN /\ client' = [client EXCEPT ![r] = OpenAIClient(selected[r])]
                /\ calls' = Append(calls, [op |-> "get_client", run |-> r,
                                           client |-> OpenAIClient(selected[r])])
                /\ pc' = [pc EXCEPT ![r] = "fetch"]
                /\ UNCHANGED exc
           ELSE /\ exc' = [exc EXCEPT ![r] = [type |-> "Exception",
                                              origin |-> "get_client"]]
                /\ calls' = Append(calls, [op |-> "get_client", run |-> r,
                                           client |-> NoneVal])
                /\ pc' = [pc EXCEPT ![r] = "crashed"]
                /\ UNCHANGED client
    /\ UNCHANGED <<entry, env, providers, url, flag, selected, i,
                   website_content, args, summary, genai_api_key, printed>>

\* run r's provider.get_client() with a GeminiNativeStrategy: genai.configure
\* replaces the process-wide key, the model handle holds no key
par_GeminiNativeStrategy_get_client(r) ==
    /\ pc[r] = "get_client"
    /\ selected[r].strategy = GeminiNativeStrategy
    /\ \E o \in NativeClientOutcomes :
         IF o = "returns"
           THEN /\ genai_api_key' = selected[r].api_key
                /\ client' = [client EXCEPT ![r] = GenerativeModel(selected[r])]
                /\ calls' = Append(calls, [op |-> "get_client", run |-> r,
                                           client |-> GenerativeModel(selected[r])])
                /\ pc' = [pc EXCEPT ![r] = "fetch"]
                /\ UNCHANGED exc
           ELSE /\ genai_api_key' = IF o = "GenerativeModel raises"
                                       THEN selected[r].api_key
                                       ELSE genai_api_key
                /\ exc' = [exc EXCEPT ![r] = [type |-> "Exception",
                                              origin |-> "get_client"]]
                /\ calls' = Append(calls, [op |-> "get_client", run |-> r,
                                           client |-> NoneVal])
                /\ pc' = [pc EXCEPT ![r] = "crashed"]
                /\ UNCHANGED client
    /\ UNCHANGED <<entry, env, providers, url, flag, selected, i,
                   website_content, args, summary, printed>>

\* run r's website_content = fetch_website_contents(url)
par_fetch(r) ==
    /\ pc[r] = "fetch"
    /\ \E o \in ScrapeOutcomes :
          /\ website_content' = [website_content EXCEPT ![r] = Str(fetch_website_contents(o))]
          /\ calls' = Append(calls, [op |-> "fetch_website_contents", run |-> r,
                                     url |-> url, outcome |-> o,
                                     result |-> fetch_website_contents(o)])
    /\ pc' = [pc EXCEPT ![r] = "check_fetch"]
    /\ UNCHANGED <<entry, env, providers, url, flag, selected, i, client,
                   args, summary, exc, genai_api_key, printed>>

\* run r's marker test on the fetched text, with the scraping panel and the
\* early return
par_check_fetch(r) ==
    /\ pc[r] = "check_fetch"
    /\ IF IsFetchError(website_content[r].v)
         THEN /\ printed' = Append(printed,
                                   PanelOut(r, ScrapingPanel(website_content[r].v)))
              /\ pc' = [pc EXCEPT ![r] = "returned"]
         ELSE /\ pc' = [pc EXCEPT ![r] = "strategy"]
              /\ UNCHANGED printed
    /\ UNCHANGED <<entry, env, providers, url, flag, selected, i, client,
                   website_content, args, summary, exc, genai_api_key, calls>>

\* run r's provider.summarize with an OpenAIAPIStrategy, up to the request
\* leaving for the backend: it carries the key the run's client was built with
par_OpenAIAPIStrategy_send(r) ==
    /\ pc[r] = "strategy"
    /\ selected[r].strategy = OpenAIAPIStrategy
    /\ args' = [args EXCEPT ![r] = [op |-> "create", key |-> client[r].api_key]]
    /\ calls' = Append(calls, [op |-> "send", run |-> r,
                               key |-> client[r].api_key])
    /\ pc' = [pc EXCEPT ![r] = "await"]
    /\ UNCHANGED <<entry, env, providers, url, flag, selected, i, client,
                   website_content, summary, exc, genai_api_key, printed>>

\* run r's provider.summarize with a GeminiNativeStrategy, up to the request
\* leaving for the backend: it carries the process-wide key in force when
\* generate_content is called
par_GeminiNativeStrategy_send(r) ==
    /\ pc[r] = "strategy"
    /\ selected[r].strategy = GeminiNativeStrategy
    /\ args' = [args EXCEPT ![r] = [op |-> "generate_content",
                                    key |-> genai_api_key]]
    /\ calls' = Append(calls, [op |-> "send", run |-> r,
                               key |-> genai_api_key])
    /\ pc' = [pc EXCEPT ![r] = "await"]
    /\ UNCHANGED <<entry, env, providers, url, flag, selected, i, client,
                   website_content, summary, exc, genai_api_key, printed>>

\* the backend's answer reaches run r's OpenAIAPIStrategy.summarize, which
\* returns the first choice's content or the error string
par_OpenAIAPIStrategy_summarize(r) ==
    /\ pc[r] = "await"
    /\ selected[r].strategy = OpenAIAPIStrategy
    /\ \E o \in OpenAIOutcomes :
          /\ calls' = Append(calls,
                [op |-> "create", run |-> r, key |-> args[r].key,
                 outcome |-> o, result |-> OpenAIResult(selected[r], o)])
          /\ summary' = [summary EXCEPT ![r] = OpenAIResult(selected[r], o)]
    /\ pc' = [pc EXCEPT ![r] = "render"]
    /\ UNCHANGED <<entry, env, providers, url, flag, selected, i, client,
                   website_content, args, exc, genai_api_key, printed>>

\* the backend's answer reaches run r's GeminiNativeStrategy.summarize, which
\* returns the text or the error string
par_GeminiNativeStrategy_summarize(r) ==
    /\ pc[r] = "await"
    /\ selected[r].strategy = GeminiNativeStrategy
    /\ \E o \in NativeOutcomes :
          /\ calls' = Append(calls,
                [op |-> "generate_content", run |-> r, key |-> args[r].key,
                 outcome |-> o, result |-> NativeResult(selected[r], o)])
          /\ summary' = [summary EXCEPT ![r] = NativeResult(selected[r], o)]
    /\ pc' = [pc EXCEPT ![r] = "render"]
    /\ UNCHANGED <<entry, env, providers, url, flag, selected, i, client,
                   website_content, args, exc, genai_api_key, printed>>

\* run r's summary panel; Markdown() raises TypeError for a summary that is
\* not a str, which ends the run
par_render(r) ==
    /\ pc[r] = "render"
    /\ IF IsStr(summary[r])
         THEN /\ printed' = Append(printed,
                                   PanelOut(r, SummaryPanel(selected[r], summary[r].v)))
              /\ pc' = [pc EXCEPT ![r] = "blank"]
              /\ UNCHANGED exc
         ELSE /\ exc' = [exc EXCEPT ![r] = [type |-> "TypeError",
                                            origin |-> "render"]]
              /\ pc' = [pc EXCEPT ![r] = "crashed"]
              /\ UNCHANGED printed
    /\ UNCHANGED <<entry, env, providers, url, flag, selected, i, client,
                   website_content, args, summary, genai_api_key, calls>>

\* run r's blank line after the summary panel
par_blank(r) ==
    /\ pc[r] = "blank"
    /\ printed' = Append(printed, BlankOut(r))
    /\ pc' = [pc EXCEPT ![r] = "returned"]
    /\ UNCHANGED <<entry, env, providers, url, flag, selected, i, client,
                   website_content, args, summary, exc, genai_api_key, calls>>

NextParallel ==
    \/ \E r \in 1..2 : par_sad_check(r)
    \/ \E r \in 1..2 : par_OpenAIAPIStrategy_get_client(r)
    \/ \E r \in 1..2 : par_GeminiNativeStrategy_get_client(r)
    \/ \E r \in 1..2 : par_fetch(r)
    \/ \E r \in 1..2 : par_check_fetch(r)
    \/ \E r \in 1..2 : par_OpenAIAPIStrategy_send(r)
    \/ \E r \in 1..2 : par_GeminiNativeStrategy_send(r)
    \/ \E r \in 1..2 : par_OpenAIAPIStrategy_summarize(r)
    \/ \E r \in 1..2 : par_GeminiNativeStrategy_summarize(r)
    \/ \E r \in 1..2 : par_render(r)
    \/ \E r \in 1..2 : par_blank(r)

SpecParallel == InitParallel /\ [][NextParallel]_vars


----------------------------------------------------------------------------
(* Reading the logs *)

\* the calls of one kind made during the run-th summarize_and_display
CallsOf(run, op) == SelectSeq(calls, LAMBDA c : c.run = run /\ c.op = op)

\* every collaborator call made during the run-th summarize_and_display
WorkOf(run) ==
    SelectSeq(calls, LAMBDA c : c.run = run /\ c.op # "summarize_and_display")

\* everything the run-th summarize_and_display printed
OutputOf(run) == SelectSeq(printed, LAMBDA o : o.run = run)

PanelsOf(run) == SelectSeq(printed, LAMBDA o : o.run = run /\ o.kind = "panel")

\* the run-th summarize_and_display has returned to its caller
Returned(run) == run < i \/ (run = i /\ pc \in {"loop", "done"})

\* the run-th summarize_and_display is over: returned, or left by an exception
Over(run) == Returned(run) \/ (run = i /\ pc = "crashed")

\* the program has ended after the loop was entered
Ended == pc \in {"done", "crashed"}

\* the text the fetch collaborator returned in the run-th call, if it was called
Fetched(run) == CallsOf(run, "fetch_website_contents")

\* the exit status of the process: click turns click.Abort into exit code 1,
\* and an uncaught exception ends the interpreter with status 1
ExitCode == IF exc = NoneVal THEN 0 ELSE 1

----------------------------------------------------------------------------
(* Claims *)

\* C1: a provider whose credential is absent is skipped: its run makes no
\* get_client, fetch or summarize call, prints exactly one skip report that
\* names the provider, and returns normally.
C1_AbsentCredentialSkips ==
    entry # "strategy" =>
    \A r \in 1..i :
        selected[r].api_key = NoneVal =>
            /\ WorkOf(r) = << >>
            /\ r = i => pc \in {"sad_check", "loop", "done"}
            /\ Returned(r) =>
                  /\ Len(OutputOf(r)) = 1
                  /\ OutputOf(r)[1].kind = "panel"
                  /\ OutputOf(r)[1].panel.title = SkipTitle
                  /\ Contains(OutputOf(r)[1].panel.body, selected[r].name)

C1_Witness ==
    \E r \in 1..i :
        /\ selected[r].api_key = NoneVal
        /\ Returned(r)
        /\ Len(PanelsOf(r)) = 1

\* C2: when the fetched text begins with the failure marker, the run never
\* calls provider.summarize (nor the backend): it prints the scraping-error
\* report carrying that text and returns.
C2_FetchErrorNeverSummarized ==
    entry # "strategy" =>
    \A r \in 1..i :
        (Fetched(r) # << >> /\ StartsWith(Fetched(r)[1].result, FetchErrorMarker)) =>
            /\ CallsOf(r, "summarize") = << >>
            /\ CallsOf(r, "create") = << >>
            /\ CallsOf(r, "generate_content") = << >>
            /\ r = i => pc \in {"check_fetch", "loop", "done"}
            /\ (r < i \/ pc # "check_fetch") =>
                  /\ Returned(r)
                  /\ Len(OutputOf(r)) = 1
                  /\ OutputOf(r)[1].kind = "panel"
                  /\ OutputOf(r)[1].panel.title = ScrapingTitle
                  /\ OutputOf(r)[1].panel.body = Fetched(r)[1].result

C2_Witness ==
    \E r \in 1..i :
        /\ Fetched(r) # << >>
        /\ StartsWith(Fetched(r)[1].result, FetchErrorMarker)
        /\ Returned(r)
        /\ Len(PanelsOf(r)) = 1

\* the providers summarize_and_display was called with, in call order
RECURSIVE ProvidersOf(_)
ProvidersOf(cs) ==
    IF cs = << >> THEN << >>
    ELSE IF Head(cs).op = "summarize_and_display"
        THEN << Head(cs).provider >> \o ProvidersOf(Tail(cs))
        ELSE ProvidersOf(Tail(cs))

\* C3: no per-provider failure (missing credential, fetch failure, backend
\* call failure) stops the loop: when the program has ended, and no client
\* constructor raised, every selected provider was passed to
\* summarize_and_display exactly once, in list order, and no exception left
\* the program.
C3_NoFailureStopsTheLoop ==
    (entry # "strategy" /\ Ended /\ ~(exc # NoneVal /\ exc.origin = "get_client")) =>
        /\ pc = "done"
        /\ exc = NoneVal
        /\ ProvidersOf(calls) = selected

\* C4: when the chat-completions call fails (create raises, or the response
\* has no first choice), OpenAIAPIStrategy.summarize returns a string that
\* contains the provider's name and the failure's description; no exception
\* leaves it.
OpenAIFailureText(r) ==
    IF r.kind = "raise" THEN r.msg ELSE "list index out of range"

OpenAIFailed(r) == r.kind = "raise" \/ Len(r.choices) = 0

C4_OpenAIFailureBecomesText ==
    (entry = "strategy" /\ pc = "done" /\ cur.strategy = OpenAIAPIStrategy
        /\ OpenAIFailed(calls[1].outcome)) =>
        /\ exc = NoneVal
        /\ IsStr(summary)
        /\ Contains(summary.v, cur.name)
        /\ Contains(summary.v, OpenAIFailureText(calls[1].outcome))

C4_Witness ==
    /\ entry = "strategy" /\ pc = "done" /\ cur.strategy = OpenAIAPIStrategy
    /\ calls[1].outcome.kind = "response"
    /\ Len(calls[1].outcome.choices) = 0
    /\ IsStr(summary)

\* C5: when the generation call fails, GeminiNativeStrategy.summarize returns
\* a string that contains the provider's name, the failure text and the
\* marker "(Native)"; no error string OpenAIAPIStrategy.summarize builds for
\* the same provider equals it.
NativeFailed(r) == r.kind \in {"raise", "no_text"}

C5_NativeFailureIsMarked ==
    (entry = "strategy" /\ pc = "done" /\ cur.strategy = GeminiNativeStrategy
        /\ NativeFailed(calls[1].outcome)) =>
        /\ exc = NoneVal
        /\ IsStr(summary)
        /\ Contains(summary.v, cur.name)
        /\ Contains(summary.v, calls[1].outcome.msg)
        /\ Contains(summary.v, "(Native)")
        /\ \A r \in OpenAIOutcomes :
              OpenAIFailed(r) => OpenAIResult(cur, r) # summary

C5_Witness ==
    /\ entry = "strategy" /\ pc = "done" /\ cur.strategy = GeminiNativeStrategy
    /\ calls[1].outcome.kind = "raise"
    /\ IsStr(summary)

\* C6: the value provider.summarize returns to the orchestrator is always
\* text, never None.
C6_SummaryIsAlwaysText ==
    (entry # "strategy" /\ pc = "render") => IsStr(summary)

\* C7: OpenAIAPIStrategy.summarize sends exactly one request, for
\* provider.model, with exactly two messages: system = the system instruction,
\* then user = user prefix immediately followed by the content; when the
\* response has a first choice it returns that choice's message content.
C7_OpenAIRequestShape ==
    (entry = "strategy" /\ pc = "done" /\ cur.strategy = OpenAIAPIStrategy) =>
        /\ Len(calls) = 1
        /\ calls[1].op = "create"
        /\ calls[1].model = cur.model
        /\ Len(calls[1].messages) = 2
        /\ calls[1].messages[1].role = "system"
        /\ calls[1].messages[1].content = args.system_prompt
        /\ calls[1].messages[2].role = "user"
        /\ Len(calls[1].messages[2].content) =
              Len(args.user_prompt_prefix) + Len(args.website_content)
        /\ StartsWith(calls[1].messages[2].content, args.user_prompt_prefix)
        /\ EndsWith(calls[1].messages[2].content, args.website_content)
        /\ ~OpenAIFailed(calls[1].outcome) =>
              summary = calls[1].outcome.choices[1].message.content

C7_Witness ==
    /\ entry = "strategy" /\ pc = "done" /\ cur.strategy = OpenAIAPIStrategy
    /\ Len(args.user_prompt_prefix) > 0
    /\ Len(args.website_content) > 0
    /\ Len(args.system_prompt) > 0
    /\ ~OpenAIFailed(calls[1].outcome)
    /\ summary = Str("This is a test summary.")

\* C8: GeminiNativeStrategy.summarize sends exactly one generation call whose
\* prompt is the system instruction, two newlines, the user prefix, two
\* newlines and the content, in that order; when the response has text it
\* returns that text.
C8_NativePromptShape ==
    (entry = "strategy" /\ pc = "done" /\ cur.strategy = GeminiNativeStrategy) =>
        LET prompt == calls[1].prompt
            ls == Len(args.system_prompt)
            lp == Len(args.user_prompt_prefix)
            lc == Len(args.website_content)
        IN  /\ Len(calls) = 1
            /\ calls[1].op = "generate_content"
            /\ Len(prompt) = ls + 2 + lp + 2 + lc
            /\ SubSeq(prompt, 1, ls) = args.system_prompt
            /\ SubSeq(prompt, ls + 1, ls + 2) = "\n\n"
            /\ SubSeq(prompt, ls + 3, ls + 2 + lp) = args.user_prompt_prefix
            /\ SubSeq(prompt, ls + lp + 3, ls + lp + 4) = "\n\n"
            /\ SubSeq(prompt, ls + lp + 5, ls + lp + 4 + lc) = args.website_content
            /\ ~NativeFailed(calls[1].outcome) => summary = Str(calls[1].outcome.text)

C8_Witness ==
    /\ entry = "strategy" /\ pc = "done" /\ cur.strategy = GeminiNativeStrategy
    /\ Len(args.user_prompt_prefix) > 0
    /\ Len(args.website_content) > 0
    /\ Len(args.system_prompt) > 0
    /\ ~NativeFailed(calls[1].outcome)
    /\ summary = Str("This is a test summary from Gemini.")

\* the backend call made during the run-th summarize_and_display, if any
BackendCalls(run) == CallsOf(run, "create") \o CallsOf(run, "generate_content")

\* the title the summary panel must carry for provider p
Labelled(title, p) == Contains(title, p.name) /\ Contains(title, p.model)

\* C9: in a run with a credential whose fetched text does not carry the
\* failure marker, summarize_and_display calls get_client once, fetch once
\* with the url and summarize once with (the client get_client returned, the
\* fetched text, the fixed system prompt, the fixed user prefix), and then
\* prints the returned text in one panel labelled with the provider's name
\* and model.
C9_SuccessfulRunRendersOnePanel ==
    entry # "strategy" =>
    \A r \in 1..i :
        (/\ Over(r)
         /\ Fetched(r) # << >>
         /\ ~StartsWith(Fetched(r)[1].result, FetchErrorMarker)) =>
            /\ Len(CallsOf(r, "get_client")) = 1
            /\ Len(Fetched(r)) = 1
            /\ Fetched(r)[1].url = url
            /\ Len(CallsOf(r, "summarize")) = 1
            /\ CallsOf(r, "summarize")[1].args.client = CallsOf(r, "get_client")[1].client
            /\ CallsOf(r, "summarize")[1].args.website_content = Fetched(r)[1].result
            /\ CallsOf(r, "summarize")[1].args.system_prompt = system_prompt
            /\ CallsOf(r, "summarize")[1].args.user_prompt_prefix = user_prompt_prefix
            /\ Len(PanelsOf(r)) = 1
            /\ Labelled(PanelsOf(r)[1].panel.title, selected[r])
            /\ Str(PanelsOf(r)[1].panel.body) = BackendCalls(r)[1].result

\* C10: a backend call failure is ordinary output for the orchestrator: the
\* error string the strategy returned is printed by the terminal render step,
\* in the one panel titled with the provider's name and model, and neither as
\* the skip report nor as the scraping-error report.
BackendFailed(c) ==
    IF c.op = "create" THEN OpenAIFailed(c.outcome) ELSE NativeFailed(c.outcome)

BackendFailureText(c) ==
    IF c.op = "create" THEN OpenAIFailureText(c.outcome) ELSE c.outcome.msg

C10_BackendFailureIsRendered ==
    entry # "strategy" =>
    \A r \in 1..i :
        (BackendCalls(r) # << >> /\ BackendFailed(BackendCalls(r)[1])
            /\ (r < i \/ pc # "render")) =>
            /\ Returned(r)
            /\ Len(PanelsOf(r)) = 1
            /\ Labelled(PanelsOf(r)[1].panel.title, selected[r])
            /\ PanelsOf(r)[1].panel.title \notin {SkipTitle, ScrapingTitle}
            /\ PanelsOf(r)[1].panel.border_style = "green"
            /\ Contains(PanelsOf(r)[1].panel.body, selected[r].name)
            /\ Contains(PanelsOf(r)[1].panel.body, BackendFailureText(BackendCalls(r)[1]))

C10_Witness ==
    \E r \in 1..i :
        /\ BackendCalls(r) # << >>
        /\ BackendFailed(BackendCalls(r)[1])
        /\ Returned(r)
        /\ Len(PanelsOf(r)) = 1

----------------------------------------------------------------------------
\* C11: for every URL that starts with neither "http://" nor "https://", and
\* for every provider selection, the CLI main aborts: the exit status is not
\* zero, a line containing "Invalid URL" has been echoed, and
\* summarize_and_display has not been called at all (no core call is logged,
\* no provider was selected, no panel was printed).
C11_InvalidURLAborts ==
    (/\ entry = "cli"
     /\ pc # "main"
     /\ ~StartsWith(url, "http://")
     /\ ~StartsWith(url, "https://"))
    => /\ pc = "aborted"
       /\ exc = [type |-> "click.Abort", origin |-> "main"]
       /\ ExitCode # 0
       /\ \E k \in 1..Len(printed) :
             printed[k].kind = "echo" /\ Contains(printed[k].text, "Invalid URL")
       /\ calls = << >>
       /\ selected = << >>
       /\ i = 0
       /\ \A k \in 1..Len(printed) : printed[k].kind = "echo"

\* an URL with another scheme was rejected while a single provider was asked for
C11_Witness ==
    /\ entry = "cli"
    /\ url = "ftp://example.com"
    /\ flag = "gemini-native"
    /\ pc = "aborted"
    /\ ExitCode = 1
    /\ calls = << >>

----------------------------------------------------------------------------
\* the providers the flag f stands for, read off the PROVIDERS list
Preset(f) ==
    CASE f = "ollama" -> << PROVIDERS(env)[1] >>
      [] f = "openai" -> << PROVIDERS(env)[2] >>
      [] f = "gemini-openai" -> << PROVIDERS(env)[3] >>
      [] f = "gemini-native" -> << PROVIDERS(env)[4] >>
      [] f = "all" -> PROVIDERS(env)

\* C12: for a valid URL the provider flag determines the runs: when the
\* program has ended (and no client constructor raised), a named preset has
\* caused exactly one summarize_and_display call, with that preset's provider,
\* "all" has caused exactly one call per entry of PROVIDERS in list order,
\* and every call received the URL given on the command line.
C12_FlagDeterminesRuns ==
    (/\ entry = "cli"
     /\ ValidURL(url)
     /\ Ended
     /\ ~(exc # NoneVal /\ exc.origin = "get_client"))
    => /\ ProvidersOf(calls) = Preset(flag)
       /\ \A k \in 1..Len(calls) :
             calls[k].op = "summarize_and_display" => calls[k].url = url

----------------------------------------------------------------------------
\* the provider a constructor call has built
Constructed(cls) == entry = "provider" /\ pc = "done" /\ args.cls = cls

\* C13: GeminiProvider's defaults follow the strategy it is given: with
\* GeminiNativeStrategy the name is "Google Gemini (Native)", the model
\* defaults to "gemini-2.5-pro" and there is no endpoint; with
\* OpenAIAPIStrategy the name is "Google Gemini (OpenAI API)", the model
\* defaults to "gemini-2.5-flash" and the endpoint is the compatibility-layer
\* URL; a given model name is kept, and in both cases the credential is the
\* value of GEMINI_API_KEY.
C13_GeminiDefaultsFollowStrategy ==
    Constructed("GeminiProvider") =>
        LET p == providers[1]
            given == args.model_name
        IN  /\ Len(providers) = 1
            /\ p.strategy = args.strategy
            /\ p.api_key = env.GEMINI_API_KEY
            /\ args.strategy = GeminiNativeStrategy =>
                  /\ p.name = "Google Gemini (Native)"
                  /\ p.base_url = NoneVal
                  /\ given = NoneVal => p.model = "gemini-2.5-pro"
            /\ args.strategy = OpenAIAPIStrategy =>
                  /\ p.name = "Google Gemini (OpenAI API)"
                  /\ p.base_url = Str("https://generativelanguage.googleapis.com/v1beta")
                  /\ given = NoneVal => p.model = "gemini-2.5-flash"
            /\ given = Str("custom-model") => p.model = "custom-model"

\* a native Gemini provider built without a model name, the key being set
C13_Witness ==
    /\ Constructed("GeminiProvider")
    /\ args.strategy = GeminiNativeStrategy
    /\ args.model_name = NoneVal
    /\ providers[1].model = "gemini-2.5-pro"
    /\ providers[1].api_key = Str("sk-test")

\* C14: for every model_name argument OllamaProvider builds a provider named
\* "Ollama" with an OpenAIAPIStrategy, the credential "ollama" and the endpoint
\* "http://localhost:11434/v1", whatever the environment holds; its model is
\* the given name, or "llama3.2:latest" when no name is given (None, or the
\* empty name).
C14_OllamaProviderFields ==
    Constructed("OllamaProvider") =>
        LET p == providers[1]
            given == args.model_name
        IN  /\ Len(providers) = 1
            /\ p.name = "Ollama"
            /\ p.strategy = OpenAIAPIStrategy
            /\ p.api_key = Str("ollama")
            /\ p.base_url = Str("http://localhost:11434/v1")
            /\ given = Str("custom-model") => p.model = "custom-model"
            /\ given \in {NoneVal, Str("")} => p.model = "llama3.2:latest"

\* an Ollama provider built with a custom model name
C14_Witness ==
    /\ Constructed("OllamaProvider")
    /\ args.model_name = Str("custom-model")
    /\ providers[1].model = "custom-model"

\* C15: OpenAIProvider builds a provider named "OpenAI" with an
\* OpenAIAPIStrategy and no endpoint; its model is the given name, or
\* "gpt-4o-mini" when no name is given; its credential is the value of
\* OPENAI_API_KEY, and when the key is not set the constructor still
\* completes, without an exception, and the credential is None.
C15_OpenAIProviderFields ==
    Constructed("OpenAIProvider") =>
        LET p == providers[1]
            given == args.model_name
        IN  /\ Len(providers) = 1
            /\ exc = NoneVal
            /\ p.name = "OpenAI"
            /\ p.strategy = OpenAIAPIStrategy
            /\ p.base_url = NoneVal
            /\ given = Str("custom-model") => p.model = "custom-model"
            /\ given \in {NoneVal, Str("")} => p.model = "gpt-4o-mini"
            /\ p.api_key = env.OPENAI_API_KEY
            /\ env.OPENAI_API_KEY = NoneVal => p.api_key = NoneVal

\* an OpenAI provider built while OPENAI_API_KEY is not set
C15_Witness ==
    /\ Constructed("OpenAIProvider")
    /\ env.OPENAI_API_KEY = NoneVal
    /\ args.model_name = NoneVal
    /\ providers[1].api_key = NoneVal
    /\ providers[1].model = "gpt-4o-mini"

----------------------------------------------------------------------------
\* the clients OpenAIAPIStrategy.get_client returned, each with the provider
\* it was built for
OpenAIClientsBuilt ==
    { [provider |-> selected[calls[k].run], client |-> calls[k].client] :
        k \in { n \in 1..Len(calls) :
                  /\ calls[n].op = "get_client"
                  /\ calls[n].client # NoneVal
                  /\ selected[calls[n].run].strategy = OpenAIAPIStrategy } }

\* C16: the client OpenAIAPIStrategy.get_client returns carries the
\* provider's credential; it targets the provider's endpoint when the provider
\* has one, and is built without an endpoint (the OpenAI client's own
\* default) when the provider has none.
C16_ClientFollowsProvider ==
    \A b \in OpenAIClientsBuilt :
        /\ b.client.kind = "OpenAI"
        /\ b.client.api_key = b.provider.api_key
        /\ b.provider.base_url # NoneVal => b.client.base_url = b.provider.base_url
        /\ b.provider.base_url = NoneVal => b.client.base_url = NoneVal

\* one program run built a client for Ollama's local endpoint and a client
\* for the OpenAI provider, which has no endpoint
C16_Witness ==
    /\ \E b \in OpenAIClientsBuilt :
          /\ b.provider.name = "Ollama"
          /\ b.client.base_url = Str("http://localhost:11434/v1")
          /\ b.client.api_key = Str("ollama")
    /\ \E b \in OpenAIClientsBuilt :
          /\ b.provider.name = "OpenAI"
          /\ b.client.base_url = NoneVal
          /\ b.client.api_key = Str("sk-test")

----------------------------------------------------------------------------
\* C17: fetch_website_contents never raises: whenever a step fails while
\* browsing or while parsing, the call returns (the caller goes on to its
\* marker test with a string in website_content, no exception is under way)
\* and the string returned begins with "Error fetching website content" and
\* contains the failure's description.
C17_ScraperFailureBecomesText ==
    \A r \in 1..i :
        (Fetched(r) # << >> /\ Fetched(r)[1].outcome.kind = "raise") =>
            LET f == Fetched(r)[1]
            IN  /\ StartsWith(f.result, "Error fetching website content")
                /\ Contains(f.result, f.outcome.msg)
                /\ (r = i /\ pc = "check_fetch") =>
                      (website_content = Str(f.result) /\ exc = NoneVal)
                /\ ~(exc # NoneVal /\ exc.origin = "fetch_website_contents")

\* the parser failed during a fetch and the caller has the error string
C17_Witness ==
    /\ i >= 1
    /\ pc = "check_fetch"
    /\ Fetched(i) # << >>
    /\ Fetched(i)[1].outcome = [kind |-> "raise", stage |-> "parse",
                                msg |-> "maximum recursion depth exceeded"]
    /\ website_content =
          Str("Error fetching website content with Playwright: maximum recursion depth exceeded")

----------------------------------------------------------------------------
\* the three reports of a run, told apart by the panel's title
SkipReport(run) ==
    \E k \in 1..Len(PanelsOf(run)) : PanelsOf(run)[k].panel.title = SkipTitle

ScrapingReport(run) ==
    \E k \in 1..Len(PanelsOf(run)) : PanelsOf(run)[k].panel.title = ScrapingTitle

SummaryReport(run) ==
    \E k \in 1..Len(PanelsOf(run)) :
        /\ PanelsOf(run)[k].panel.title \notin {SkipTitle, ScrapingTitle}
        /\ Labelled(PanelsOf(run)[k].panel.title, selected[run])

\* C18: a run of summarize_and_display never emits two report panels, and a
\* run that has returned has emitted exactly one, of exactly one of three
\* kinds: the skip report (just when the credential is missing), the
\* scraping-error report (just when the fetched text starts with the marker),
\* or the summary panel (just when a text without the marker was fetched).
C18_OneReportPerRun ==
    \A r \in 1..i :
        /\ Len(PanelsOf(r)) <= 1
        /\ Returned(r) =>
              /\ Len(PanelsOf(r)) = 1
              /\ SkipReport(r) \/ ScrapingReport(r) \/ SummaryReport(r)
              /\ ~(SkipReport(r) /\ ScrapingReport(r))
              /\ ~(SkipReport(r) /\ SummaryReport(r))
              /\ ~(ScrapingReport(r) /\ SummaryReport(r))
              /\ SkipReport(r) <=> ~Truthy(selected[r].api_key)
              /\ ScrapingReport(r) <=>
                    (Fetched(r) # << >> /\ StartsWith(Fetched(r)[1].result, FetchErrorMarker))
              /\ SummaryReport(r) <=>
                    (Fetched(r) # << >> /\ ~StartsWith(Fetched(r)[1].result, FetchErrorMarker))

\* one program run in which the three kinds of report were each emitted once
C18_Witness ==
    /\ pc = "done"
    /\ \E a, b, c \in 1..i :
          /\ SkipReport(a) /\ Len(PanelsOf(a)) = 1
          /\ ScrapingReport(b) /\ Len(PanelsOf(b)) = 1
          /\ SummaryReport(c) /\ Len(PanelsOf(c)) = 1

----------------------------------------------------------------------------
\* the collaborator calls of summarize_and_display in the order of its body;
\* the fourth is the backend call made inside provider.summarize
StepOrder ==
    << {"get_client"}, {"fetch_website_contents"}, {"summarize"},
       {"create", "generate_content"} >>

\* C19: in every run the steps come in the order credential check,
\* provider.get_client, fetch, provider.summarize, render: collaborators are
\* called only when the credential is present, the calls made so far are an
\* initial part of get_client, fetch, summarize (with its backend call),
\* summarize is called only when the fetched text does not start with the
\* marker, a summary panel is printed only after summarize was called, and
\* when the scraping-error report is printed the client has already been
\* constructed.
C19_StepsInOrder ==
    \A r \in 1..i :
        LET W == WorkOf(r)
        IN  /\ W # << >> => Truthy(selected[r].api_key)
            /\ Len(W) <= Len(StepOrder)
            /\ \A k \in 1..Len(W) : W[k].op \in StepOrder[k]
            /\ Len(W) >= 3 => ~StartsWith(W[2].result, FetchErrorMarker)
            /\ SummaryReport(r) => Len(W) = 4
            /\ (r = i /\ pc = "render") => (Len(W) = 4 /\ PanelsOf(r) = << >>)
            /\ ScrapingReport(r) =>
                  /\ Len(W) = 2
                  /\ W[1].client # NoneVal
            /\ (r = i /\ pc = "check_fetch") =>
                  (Len(W) = 2 /\ W[1].client = client /\ client # NoneVal)

\* a fetch failure has just been reported by a run whose client was built
C19_Witness ==
    /\ i >= 1
    /\ pc = "loop"
    /\ ScrapingReport(i)
    /\ Len(WorkOf(i)) = 2
    /\ WorkOf(i)[1].op = "get_client"
    /\ WorkOf(i)[1].client # NoneVal
    /\ WorkOf(i)[2].op = "fetch_website_contents"

----------------------------------------------------------------------------
\* C20: no retry: in one run provider.summarize is called at most once and
\* the strategy issues at most one backend call (chat.completions.create or
\* generate_content); when that call failed, the strategy returned one error
\* string carrying the failure's description, the run ended with that string
\* as its only panel, and no second backend call was made.
C20_NoRetry ==
    \A r \in 1..i :
        /\ Len(CallsOf(r, "summarize")) <= 1
        /\ Len(BackendCalls(r)) <= 1
        /\ (BackendCalls(r) # << >> /\ BackendFailed(BackendCalls(r)[1])) =>
              LET c == BackendCalls(r)[1]
              IN  /\ IsStr(c.result)
                  /\ Contains(c.result.v, BackendFailureText(c))
                  /\ (r = i /\ pc = AfterStrategy) => summary = c.result
                  /\ (entry # "strategy" /\ (r < i \/ pc # "render")) =>
                        /\ Returned(r)
                        /\ Len(PanelsOf(r)) = 1
                        /\ PanelsOf(r)[1].panel.body = c.result.v

\* a run whose single generate_content call raised has ended
C20_Witness ==
    \E r \in 1..i :
        /\ Returned(r)
        /\ Len(BackendCalls(r)) = 1
        /\ BackendCalls(r)[1].op = "generate_content"
        /\ BackendCalls(r)[1].outcome.kind = "raise"
        /\ Len(PanelsOf(r)) = 1

----------------------------------------------------------------------------
\* a log entry without the number of the run it belongs to
Unnumbered(seq) == [k \in 1..Len(seq) |-> [seq[k] EXCEPT !.run = 0]]

\* what the collaborator answered to a logged call
Answer(c) ==
    IF c.op = "get_client" THEN [kind |-> "client", built |-> c.client # NoneVal]
    ELSE IF c.op = "summarize" THEN [kind |-> "delegated"]
    ELSE c.outcome

\* the collaborators answered the second run as they answered the first
SameAnswers ==
    \A k \in 1..Len(WorkOf(1)) :
        (k <= Len(WorkOf(2)) /\ WorkOf(1)[k].op = WorkOf(2)[k].op) =>
            Answer(WorkOf(1)[k]) = Answer(WorkOf(2)[k])

\* the second run made the calls of the first and ended as the first did
SameRun ==
    /\ Unnumbered(WorkOf(2)) = Unnumbered(WorkOf(1))
    /\ Unnumbered(OutputOf(2)) = Unnumbered(OutputOf(1))
    /\ Returned(2)

\* C21: a provider is immutable after construction: no step of get_client,
\* summarize or summarize_and_display changes the provider (its name, model,
\* strategy, credential and endpoint stay those it was built with, and every
\* call receives that same provider), and a second sequential run with the
\* same provider, whose collaborators answer as in the first, makes the same
\* calls and has the same outcome.
C21_ProviderImmutable ==
    /\ [][providers' = providers /\ (selected # << >> => selected' = selected)]_vars
    /\ [](entry = "repeat" =>
            /\ selected = << providers[1], providers[1] >>
            /\ providers[1] \in ProvidersIn(env)
            /\ \A k \in 1..Len(calls) :
                  calls[k].op = "summarize_and_display" => calls[k].provider = providers[1]
            /\ (i = 2 /\ Over(2) /\ SameAnswers) => SameRun)

\* both runs made all four calls, got the same answers and printed a summary
C21_Witness ==
    /\ entry = "repeat"
    /\ i = 2
    /\ pc = "done"
    /\ Len(WorkOf(1)) = 4
    /\ SameAnswers
    /\ SameRun
    /\ SummaryReport(2)

----------------------------------------------------------------------------
\* run r, taken with the answers its collaborators gave, ends by an
\* exception: get_client raised, or the summary handed to Markdown() is not
\* a str
RunRaises(r) ==
    /\ HasCredential(selected[r])
    /\ \/ \E k \in 1..Len(CallsOf(r, "get_client")) :
             CallsOf(r, "get_client")[k].client = NoneVal
       \/ /\ BackendCalls(r) # << >>
          /\ ~IsStr(BackendCalls(r)[1].result)

\* what run r prints from the answers its collaborators gave
OwnOutput(r) ==
    IF ~HasCredential(selected[r]) THEN << PanelOut(r, SkipPanel(selected[r])) >>
    ELSE IF Fetched(r) = << >> THEN << >>
    ELSE IF IsFetchError(Fetched(r)[1].result)
        THEN << PanelOut(r, ScrapingPanel(Fetched(r)[1].result)) >>
    ELSE IF BackendCalls(r) # << >> /\ IsStr(BackendCalls(r)[1].result)
        THEN << PanelOut(r, SummaryPanel(selected[r], BackendCalls(r)[1].result.v)),
                BlankOut(r) >>
    ELSE << >>

\* what run r prints in the sequential list-order run with the same answers:
\* the loop reaches run r only when no earlier run ended by an exception
SequentialOutput(r) ==
    IF \A q \in 1..(r - 1) : ~RunRaises(q) THEN OwnOutput(r) ELSE << >>

\* every run is over and none was ended by get_client raising
C22_AllOver ==
    /\ entry = "parallel"
    /\ \A r \in 1..2 : pc[r] \in {"returned", "crashed"}
    /\ \A r \in 1..2 : ~(exc[r] # NoneVal /\ exc[r].origin = "get_client")

\* C22: providers are independent: in every interleaving of the runs of two
\* distinct providers of the list, each backend request leaves with the
\* credential of the provider whose run it belongs to, and when the runs are
\* over each provider has printed what it prints in the sequential
\* list-order run with the same answers of its collaborators.
C22_ProvidersIndependent ==
    C22_AllOver =>
        \A r \in 1..2 :
            /\ \A k \in 1..Len(CallsOf(r, "send")) :
                  CallsOf(r, "send")[k].key = selected[r].api_key
            /\ OutputOf(r) = SequentialOutput(r)

----------------------------------------------------------------------------
\* the client the provider's strategy builds for p
StrategyClient(p) ==
    IF p.strategy = GeminiNativeStrategy THEN GenerativeModel(p) ELSE OpenAIClient(p)

\* the request the provider's strategy builds from the arguments a
StrategyRequest(p, a) ==
    IF p.strategy = GeminiNativeStrategy
        THEN NativePrompt(a.system_prompt, a.user_prompt_prefix, a.website_content)
        ELSE OpenAIMessages(a.system_prompt, a.user_prompt_prefix, a.website_content)

\* the request logged with a backend call
RequestOf(c) == IF c.op = "create" THEN c.messages ELSE c.prompt

\* C23: provider dispatch is pure delegation: the client provider.get_client()
\* returns to the orchestrator is the one the provider's strategy builds for
\* that provider; the strategy's summarize works on exactly the arguments
\* provider.summarize was called with (same client, content, system prompt and
\* prefix), and the value provider.summarize returns to the orchestrator is
\* the value the strategy returned.
C23_PureDelegation ==
    entry \in {"cli", "script", "repeat"} =>
    \A r \in 1..i :
        /\ \A k \in 1..Len(CallsOf(r, "get_client")) :
              CallsOf(r, "get_client")[k].client \in {NoneVal, StrategyClient(selected[r])}
        /\ (r = i /\ pc = "fetch") => client = StrategyClient(selected[r])
        /\ (r = i /\ pc = "strategy") => args = CallsOf(r, "summarize")[1].args
        /\ BackendCalls(r) # << >> =>
              /\ CallsOf(r, "summarize")[1].args.client = StrategyClient(selected[r])
              /\ RequestOf(BackendCalls(r)[1]) =
                    StrategyRequest(selected[r], CallsOf(r, "summarize")[1].args)
              /\ (r = i /\ pc = "render") => summary = BackendCalls(r)[1].result

\* a native Gemini run whose strategy has just returned to provider.summarize
C23_Witness ==
    /\ entry = "cli"
    /\ i >= 1
    /\ pc = "render"
    /\ selected[i].strategy = GeminiNativeStrategy
    /\ BackendCalls(i) # << >>
    /\ summary = BackendCalls(i)[1].result
    /\ args = CallsOf(i, "summarize")[1].args
    /\ client = GenerativeModel(selected[i])

----------------------------------------------------------------------------
\* the run-th summarize_and_display is past its marker test
PastMarkerTest(run) ==
    run < i \/ pc \notin {"sad_check", "get_client", "fetch", "check_fetch", "call_summarize"}

\* C24: fetch success is decided by prefix alone: once a run is past the
\* marker test, provider.summarize has been invoked in it if and only if the
\* credential is truthy and a text was fetched that does not start with
\* "Error fetching website content"; a page that loaded but whose own text
\* begins with the marker is reported as a scraping error and not summarized,
\* and an empty fetched text is sent to summarize.
C24_SummarizeIffNoMarker ==
    entry \in {"cli", "script", "repeat"} =>
    \A r \in 1..i :
        PastMarkerTest(r) =>
            /\ CallsOf(r, "summarize") # << >> <=>
                  (/\ Truthy(selected[r].api_key)
                   /\ Fetched(r) # << >>
                   /\ ~StartsWith(Fetched(r)[1].result, "Error fetching website content"))
            /\ (/\ Fetched(r) # << >>
                 /\ Fetched(r)[1].outcome.kind = "text"
                 /\ StartsWith(Fetched(r)[1].result, "Error fetching website content")) =>
                    /\ CallsOf(r, "summarize") = << >>
                    /\ PanelsOf(r) = << PanelOut(r, ScrapingPanel(Fetched(r)[1].result)) >>
            /\ (Fetched(r) # << >> /\ Fetched(r)[1].result = "") =>
                    /\ Len(CallsOf(r, "summarize")) = 1
                    /\ CallsOf(r, "summarize")[1].args.website_content = ""

\* one program run met a loaded page that begins with the marker and, for
\* another provider, a page without text
C24_Witness ==
    \E a, b \in 1..i :
        /\ PastMarkerTest(a) /\ PastMarkerTest(b)
        /\ Fetched(a) # << >>
        /\ Fetched(a)[1].outcome.kind = "text"
        /\ StartsWith(Fetched(a)[1].result, FetchErrorMarker)
        /\ ScrapingReport(a)
        /\ Fetched(b) # << >>
        /\ Fetched(b)[1].result = ""
        /\ Len(CallsOf(b, "summarize")) = 1

----------------------------------------------------------------------------
\* the get_client calls of a run that raised
RaisedClientCalls(run) ==
    SelectSeq(CallsOf(run, "get_client"), LAMBDA c : c.client = NoneVal)

\* C25: an exception raised by provider.get_client is not turned into an
\* error string: the program is left by that exception, the run made no
\* fetch, summarize or backend call and printed no panel, and no provider
\* after it in the selected list was passed to summarize_and_display.
C25_ClientFailurePropagates ==
    entry \in {"cli", "script", "repeat"} =>
    \A r \in 1..i :
        RaisedClientCalls(r) # << >> =>
            /\ r = i
            /\ pc = "crashed"
            /\ exc = [type |-> "Exception", origin |-> "get_client"]
            /\ ExitCode # 0
            /\ WorkOf(r) = RaisedClientCalls(r)
            /\ Len(WorkOf(r)) = 1
            /\ OutputOf(r) = << >>
            /\ Len(ProvidersOf(calls)) = r

\* the first of four providers failed to build its client
C25_Witness ==
    /\ entry = "cli"
    /\ Len(selected) = 4
    /\ i = 1
    /\ pc = "crashed"
    /\ RaisedClientCalls(1) # << >>
    /\ Len(ProvidersOf(calls)) = 1

----------------------------------------------------------------------------
\* C26: the skip decision tests the credential for truthiness: a run whose
\* provider has the empty string as credential is skipped exactly like a run
\* whose provider has None: no get_client, fetch or summarize call, and one
\* skip report, the same report the provider gets with the credential None.
C26_EmptyCredentialSkips ==
    entry \in {"cli", "script", "repeat"} =>
    \A r \in 1..i :
        (selected[r].api_key \in {NoneVal, Str("")} /\ (r < i \/ pc # "sad_check")) =>
            /\ Returned(r)
            /\ WorkOf(r) = << >>
            /\ OutputOf(r) =
                  << PanelOut(r, SkipPanel([selected[r] EXCEPT !.api_key = NoneVal])) >>
            /\ SkipReport(r)

\* one program run skipped a provider whose key is set but empty and a
\* provider whose key is not set
C26_Witness ==
    \E a, b \in 1..i :
        /\ selected[a].api_key = Str("")
        /\ selected[b].api_key = NoneVal
        /\ Returned(a) /\ Returned(b)
        /\ SkipReport(a) /\ SkipReport(b)
        /\ WorkOf(a) = << >>

----------------------------------------------------------------------------
\* the run-th summarize_and_display is past the named step
PastCheck(run) == run < i \/ pc # "sad_check"

PastClient(run) == run < i \/ pc \notin {"sad_check", "get_client"}

PastFetch(run) == run < i \/ pc \notin {"sad_check", "get_client", "fetch"}

\* C27 as stated: the local provider is never skipped: for every environment
\* and every model_name its credential is "ollama", and every run with it
\* reaches get_client and fetch.
C27_OllamaReachesFetch ==
    entry = "repeat" =>
    \A r \in 1..i :
        selected[r].name = "Ollama" =>
            /\ selected[r].api_key = Str("ollama")
            /\ PastCheck(r) => ~SkipReport(r)
            /\ PastClient(r) => Len(CallsOf(r, "get_client")) = 1
            /\ PastFetch(r) => Len(Fetched(r)) = 1

\* C27 amended: for every environment and every model_name the local
\* provider's credential is "ollama", no run with it prints the skip report,
\* every run with it calls get_client, and every run in which get_client
\* returned a client calls fetch; a run in which get_client raised ends
\* there, without a fetch.
C27_OllamaNeverSkipped ==
    entry = "repeat" =>
    \A r \in 1..i :
        selected[r].name = "Ollama" =>
            /\ selected[r].api_key = Str("ollama")
            /\ PastCheck(r) => ~SkipReport(r)
            /\ PastClient(r) => Len(CallsOf(r, "get_client")) = 1
            /\ PastFetch(r) =>
                  IF RaisedClientCalls(r) = << >>
                      THEN Len(Fetched(r)) = 1
                      ELSE Fetched(r) = << >> /\ pc = "crashed"

\* a run of the local provider built with a custom model fetched the page
\* while no API key was set in the environment
C27_Witness ==
    /\ entry = "repeat"
    /\ env = [OPENAI_API_KEY |-> NoneVal, GEMINI_API_KEY |-> NoneVal]
    /\ selected[1].name = "Ollama"
    /\ selected[1].model = "custom-model"
    /\ i = 1
    /\ pc = "check_fetch"
    /\ Len(Fetched(1)) = 1

----------------------------------------------------------------------------
\* C28: every constructed GeminiProvider has no endpoint if and only if its
\* name is "Google Gemini (Native)", and both hold exactly when the class
\* name of its strategy contains "Native": GeminiNativeStrategy and the
\* OpenAI-compatible NativeCompatStrategy are classified native,
\* OpenAIAPIStrategy and the native subclass GeminiDirectStrategy are not.
C28_ClassifiedBySubstring ==
    Constructed("GeminiProvider") =>
        LET p == providers[1]
            native == args.strategy \in {"GeminiNativeStrategy", "NativeCompatStrategy"}
        IN  /\ p.base_url = NoneVal <=> p.name = "Google Gemini (Native)"
            /\ p.name = "Google Gemini (Native)" <=> native
            /\ p.name \in {"Google Gemini (Native)", "Google Gemini (OpenAI API)"}
            /\ ~native => p.base_url = Str("https://generativelanguage.googleapis.com/v1beta")
            /\ args.model_name = NoneVal =>
                  p.model = (IF native THEN "gemini-2.5-pro" ELSE "gemini-2.5-flash")

\* a provider was built with the OpenAI-compatible strategy whose class name
\* contains "Native", and got the native name and no endpoint
C28_Witness ==
    /\ Constructed("GeminiProvider")
    /\ args.strategy = "NativeCompatStrategy"
    /\ providers[1].name = "Google Gemini (Native)"
    /\ providers[1].base_url = NoneVal

----------------------------------------------------------------------------
\* the positions of the selected list whose provider has a credential
Credentialed == { r \in 1..Len(selected) : Truthy(selected[r].api_key) }

\* every fetch the program made
AllFetches == SelectSeq(calls, LAMBDA c : c.op = "fetch_website_contents")

\* C29: fetched content is not shared between providers: when the program
\* has ended (and no client constructor raised), the fetch collaborator was
\* called exactly once, with the program's URL, in the run of each selected
\* provider that has a credential and not at all in the run of a provider
\* without one, so the number of fetches equals the number of credentialed
\* providers in the selected list.
C29_OneFetchPerCredentialedProvider ==
    (/\ entry \in {"cli", "script"}
     /\ Ended
     /\ ~(exc # NoneVal /\ exc.origin = "get_client"))
    => /\ \A r \in 1..Len(selected) :
             IF r \in Credentialed
                 THEN Len(Fetched(r)) = 1 /\ Fetched(r)[1].url = url
                 ELSE Fetched(r) = << >>
       /\ Len(AllFetches) = Cardinality(Credentialed)

----------------------------------------------------------------------------
\* the providers that differ from p at most in credential and endpoint
Variants(p) ==
    { [p EXCEPT !.api_key = k, !.base_url = b] : k \in MockKeys, b \in MockEndpoints }

\* the value the strategy of p returns when the backend answers r
StrategyResult(p, r) ==
    IF p.strategy = GeminiNativeStrategy THEN NativeResult(p, r) ELSE OpenAIResult(p, r)

\* the texts a logged backend call sent out
SentTexts(c) ==
    IF c.op = "create" THEN { c.messages[k].content : k \in 1..Len(c.messages) } \cup {c.model}
                       ELSE { c.prompt }

\* the part of a returned error string that stands before the failure's own
\* description
ErrorPrefix(c) ==
    SubSeq(c.result.v, 1, Len(c.result.v) - Len(BackendFailureText(c)))

\* C30: the outgoing request does not depend on the credential or the
\* endpoint: for every provider differing from the calling one only in
\* api_key and base_url, the strategy builds the same messages or prompt and
\* the same model target from the same arguments and returns the same value
\* for the same backend answer; the credential occurs neither in the texts
\* sent nor in the part of the error string the strategy itself writes.
C30_RequestIgnoresCredential ==
    (entry = "strategy" /\ calls # << >>) =>
        LET c == calls[1]
        IN  /\ \A q \in Variants(cur) :
                  /\ StrategyRequest(q, args) = RequestOf(c)
                  /\ c.op = "create" => c.model = q.model
                  /\ StrategyResult(q, c.outcome) = c.result
            /\ \A k \in MockKeys, t \in SentTexts(c) : ~Contains(t, k.v)
            /\ BackendFailed(c) =>
                  \A k \in MockKeys : ~Contains(ErrorPrefix(c), k.v)

\* a chat-completions call made for a provider with the second credential
\* and a custom endpoint has failed
C30_Witness ==
    /\ entry = "strategy"
    /\ cur.api_key = Str("other-key")
    /\ cur.base_url = Str("http://localhost:11434/v1")
    /\ calls # << >>
    /\ calls[1].op = "create"
    /\ BackendFailed(calls[1])
    /\ summary = calls[1].result

====
